---- MODULE Spec2Model ----
(***************************************************************************)
(* Model of the study-companion chatbot core of src/bot.py: the keyword    *)
(* router chat, the name step set_name / extract_name, and the grade       *)
(* engine (parse_subject_scores, add_or_update_marks, show_marks_table,    *)
(* calculate_grade).                                                       *)
(*                                                                         *)
(* A Python str is modelled as a sequence of one-character strings, so     *)
(* that strip, lower, title, split, the substring test `kw in lower` and   *)
(* the regular expressions are computed character by character, as the     *)
(* interpreter computes them.  The alphabet of the modelled inputs has a   *)
(* single whitespace character, the space.                                 *)
(***************************************************************************)
EXTENDS Integers, Sequences, FiniteSets, TLC

\* ------------------------------------------------------------------------
\* Python str primitives
\* ------------------------------------------------------------------------
LOWERCASE == <<"a","b","c","d","e","f","g","h","i","j","k","l","m","n","o","p","q","r","s","t","u","v","w","x","y","z">>

UPPERCASE == <<"A","B","C","D","E","F","G","H","I","J","K","L","M","N","O","P","Q","R","S","T","U","V","W","X","Y","Z">>

DIGITS == <<"0","1","2","3","4","5","6","7","8","9">>

LowerSet == {LOWERCASE[i] : i \in 1..26}

UpperSet == {UPPERCASE[i] : i \in 1..26}

Letters == LowerSet \cup UpperSet

Digits == {DIGITS[i] : i \in 1..10}

\* \s of the re module, over the modelled alphabet
Whitespace == {" "}

ToLower == [c \in UpperSet |-> LOWERCASE[CHOOSE i \in 1..26 : UPPERCASE[i] = c]]

ToUpper == [c \in LowerSet |-> UPPERCASE[CHOOSE i \in 1..26 : LOWERCASE[i] = c]]

DigitVal == [c \in Digits |-> (CHOOSE i \in 1..10 : DIGITS[i] = c) - 1]

lower_char(c) == IF c \in UpperSet THEN ToLower[c] ELSE c

upper_char(c) == IF c \in LowerSet THEN ToUpper[c] ELSE c

\* str.lower()
lower(s) == [i \in 1..Len(s) |-> lower_char(s[i])]

\* str.strip(): drops the leading and trailing whitespace
strip(s) ==
  LET keep == {i \in 1..Len(s) : s[i] \notin Whitespace}
  IN IF keep = {} THEN << >>
     ELSE SubSeq(s, CHOOSE i \in keep : \A j \in keep : i <= j,
                    CHOOSE i \in keep : \A j \in keep : i >= j)

\* str.title(): a letter is upper-cased when the character before it is not
\* a letter, and lower-cased otherwise
title(s) ==
  [i \in 1..Len(s) |->
     IF s[i] \in Letters
     THEN IF i > 1 /\ s[i-1] \in Letters THEN lower_char(s[i]) ELSE upper_char(s[i])
     ELSE s[i]]

\* the substring test `sub in s`
contains(s, sub) ==
  \E i \in 0..(Len(s) - Len(sub)) : SubSeq(s, i + 1, i + Len(sub)) = sub

\* any(kw in s for kw in kws)
any_in(kws, s) == \E k \in 1..Len(kws) : contains(s, kws[k])

\* str.replace(old, new) for single characters
replace(s, old, new) == [i \in 1..Len(s) |-> IF s[i] = old THEN new ELSE s[i]]

\* first index j >= i whose character is outside cls (Len(s)+1 when none):
\* the end of a greedy character-class repetition started at i
RunEnd(s, i, cls) ==
  CHOOSE j \in i..(Len(s) + 1) :
    /\ j = Len(s) + 1 \/ s[j] \notin cls
    /\ \A k \in i..(j - 1) : s[k] \in cls

RECURSIVE SplitFrom(_, _)
SplitFrom(s, i) ==
  LET b == RunEnd(s, i, Whitespace)
      e == CHOOSE j \in b..(Len(s) + 1) :
             /\ j = Len(s) + 1 \/ s[j] \in Whitespace
             /\ \A k \in b..(j - 1) : s[k] \notin Whitespace
  IN IF b > Len(s) THEN << >> ELSE <<SubSeq(s, b, e - 1)>> \o SplitFrom(s, e)

\* str.split(): the whitespace-separated tokens
split(s) == SplitFrom(s, 1)

\* str.isdigit()
isdigit(s) == Len(s) > 0 /\ \A i \in 1..Len(s) : s[i] \in Digits

\* int() of a string of decimal digits
RECURSIVE int(_)
int(s) == IF Len(s) = 0 THEN 0
          ELSE 10 * int(SubSeq(s, 1, Len(s) - 1)) + DigitVal[s[Len(s)]]

Min(a, b) == IF a <= b THEN a ELSE b

Max(a, b) == IF a >= b THEN a ELSE b

\* ------------------------------------------------------------------------
\* GRADE ENGINE
\* ------------------------------------------------------------------------
\* calculate_grade with exclusive lower limits
calculate_grade_exclusive(score) ==
  IF score > 90 THEN "S"
  ELSE IF score > 80 THEN "A"
  ELSE IF score > 70 THEN "B"
  ELSE IF score > 60 THEN "C"
  ELSE IF score > 50 THEN "D"
  ELSE IF score > 40 THEN "E"
  ELSE "F"

calculate_grade(score) ==
  IF score >= 90 THEN "S"
  ELSE IF score >= 80 THEN "A"
  ELSE IF score >= 70 THEN "B"
  ELSE IF score >= 60 THEN "C"
  ELSE IF score >= 50 THEN "D"
  ELSE IF score >= 40 THEN "E"
  ELSE "F"

SubjChars == Letters \cup {" "}

Separators == {"-", "=", ":"}

\* One attempt of ([A-Za-z ]+)\s*[-=:]\s*(\d{1,3}) at index i.  The greedy
\* group takes the whole run of letters and spaces; giving characters back
\* to \s* does not move the separator, so the attempt succeeds exactly
\* when the run is followed by \s*, a separator, \s* and a digit.
subject_sep_score_at(s, i) ==
  LET j == RunEnd(s, i, SubjChars)
      j2 == RunEnd(s, j, Whitespace)
      k == IF j2 <= Len(s) /\ s[j2] \in Separators
           THEN RunEnd(s, j2 + 1, Whitespace) ELSE 0
      e == IF k = 0 THEN 0 ELSE Min(RunEnd(s, k, Digits), k + 3)
  IN [ok |-> j > i /\ k > 0 /\ e > k,
      subj |-> SubSeq(s, i, j - 1),
      score |-> IF e > k THEN SubSeq(s, k, e - 1) ELSE << >>,
      end |-> e]

\* re.findall over strategy 1: leftmost matches, scanning on from the end
\* of each match; every pair is (subj.strip().title(), int(score))
RECURSIVE subject_sep_score_from(_, _)
subject_sep_score_from(s, i) ==
  IF i > Len(s) THEN << >>
  ELSE LET m == subject_sep_score_at(s, i)
       IN IF m.ok
          THEN << <<title(strip(m.subj)), int(m.score)>> >>
               \o subject_sep_score_from(s, m.end)
          ELSE subject_sep_score_from(s, i + 1)

subject_sep_score(text) == subject_sep_score_from(text, 1)

\* One attempt of (\d{1,3})\s+in\s+([A-Za-z ]+), IGNORECASE, at index i.
\* The digits must be followed by whitespace, so only the whole run of at
\* most three digits can succeed.  When nothing but whitespace follows
\* "in", the second \s+ gives its last space back to the group.
score_in_subject_at(s, i) ==
  LET d == Min(RunEnd(s, i, Digits), i + 3)
      w == RunEnd(s, d, Whitespace)
      hasIn == /\ w + 1 <= Len(s)
               /\ lower_char(s[w]) = "i"
               /\ lower_char(s[w + 1]) = "n"
      v == IF hasIn THEN RunEnd(s, w + 2, Whitespace) ELSE 0
      e == IF hasIn THEN RunEnd(s, v, SubjChars) ELSE 0
  IN [ok |-> d > i /\ w > d /\ hasIn /\ v > w + 2 /\ (e > v \/ v > w + 3),
      score |-> SubSeq(s, i, d - 1),
      subj |-> IF e > v THEN SubSeq(s, v, e - 1) ELSE <<" ">>,
      end |-> IF e > v THEN e ELSE v]

RECURSIVE score_in_subject_from(_, _)
score_in_subject_from(s, i) ==
  IF i > Len(s) THEN << >>
  ELSE LET m == score_in_subject_at(s, i)
       IN IF m.ok
          THEN << <<title(strip(m.subj)), int(m.score)>> >>
               \o score_in_subject_from(s, m.end)
          ELSE score_in_subject_from(s, i + 1)

score_in_subject(text) == score_in_subject_from(text, 1)

\* the token scan: every token followed by an all-digit token
RECURSIVE adjacent_tokens_from(_, _)
adjacent_tokens_from(tokens, i) ==
  IF i > Len(tokens) - 1 THEN << >>
  ELSE (IF isdigit(tokens[i + 1])
        THEN << <<title(strip(tokens[i])), int(tokens[i + 1])>> >>
        ELSE << >>) \o adjacent_tokens_from(tokens, i + 1)

adjacent_tokens(text) == adjacent_tokens_from(split(replace(text, ",", " ")), 1)

\* parse_subject_scores: the matches of the first two patterns are
\* collected into one list; the token scan runs only when that list is empty
parse_subject_scores(text) ==
  LET pairs == subject_sep_score(text) \o score_in_subject(text)
  IN IF pairs = << >> THEN adjacent_tokens(text) ELSE pairs

\* ------------------------------------------------------------------------
\* The inputs of the model
\* ------------------------------------------------------------------------
\* "default" is the default session_id of chat and set_name
SessionIds == {<<"d","e","f","a","u","l","t">>, <<"u","1">>}

\* messages sent to /chat, one or more for every branch of the router
Messages ==
  { <<" "," ">>,
    <<"I"," ","w","a","n","t"," ","t","o"," ","K","i","l","l"," ","M","y","s","e","l","f",","," ","b","y","e","!"," ","9","0"," ","m","a","r","k","s",","," ","s","o"," ","h","a","p","p","y"," ","a","n","d"," ","s","a","d">>,
    <<"o","k"," ","b","y","e"," ","9","0"," ","h","a","p","p","y">>,
    <<" ","H","e","l","l","o"," ","I"," ","a","m"," ","P","r","i","y","a">>,
    <<"M","a","t","h","s"," ","-"," ","9","1",","," ","P","h","y","s","i","c","s"," ","-"," ","8","0",","," ","g","r","e","a","t","!">>,
    <<"s","h","o","w"," ","m","y"," ","g","r","a","d","e","s",","," ","h","a","p","p","y">>,
    <<"I"," ","a","m"," ","h","a","p","p","y"," ","b","u","t"," ","s","a","d">>,
    <<"i"," ","f","e","e","l"," ","s","a","d">> }

\* names sent to /set-name
NameInputs == { <<"m","y"," ","n","a","m","e"," ","i","s"," ","a","r","j","u","n">>, << >> }

\* messages about marks and grades
GradeMessages ==
  { <<"h","i",","," ","I","'","m"," ","R","a","h","u","l">>,
    <<"M","a","t","h","s"," ","-"," ","9","1",","," ","P","h","y","s","i","c","s"," ","-"," ","8","0">>,
    <<"M","a","t","h","s"," ","-"," ","7","0">>,
    <<"M","a","t","h","s"," ","-"," ","7","0",","," ","m","a","t","h","s"," ","-"," ","9","5">>,
    <<"m","a","t","h","s",":","1","5","0">>,
    <<"M","a","t","h","s"," ","1","5","0","0"," ","A","r","t"," ","7">>,
    <<"I"," ","s","c","o","r","e","d"," ","9","0"," ","i","n"," ","M","a","t","h","s">>,
    <<"M","a","t","h","s"," ","-"," ","9","0",","," ","9","5"," ","i","n"," ","P","h","y","s","i","c","s">>,
    <<"M","a","t","h","s"," ","-"," ","9","0"," ","i","n"," ","T","e","r","m">>,
    <<"r","o","o","m","1","0","1">>,
    <<"s","h","o","w"," ","m","y"," ","g","r","a","d","e","s">>,
    <<"m","y"," ","s","c","o","r","e">>,
    <<"g","r","a","d","e"," ","s","c","a","l","e"," ","9","0">> }

GradeNames == { <<"R","a","h","u","l">> }

\* the decimal digits of n >= 0, as a client writes a score
RECURSIVE ScoreText(_)
ScoreText(n) ==
  IF n < 10 THEN <<DIGITS[n + 1]>> ELSE Append(ScoreText(n \div 10), DIGITS[(n % 10) + 1])

\* every score a subject can hold
Scores == 0..100

\* one message reporting each score
ScoreMessages == {<<"M","a","t","h","s"," ","-"," ">> \o ScoreText(score) : score \in Scores}

\* requests about the marks held
ReportRequests == { <<"s","h","o","w"," ","m","y"," ","g","r","a","d","e","s">>, <<"P","h","y","s","i","c","s"," ","-"," ","8","0">>, <<"m","y"," ","s","c","o","r","e">> }

\* inputs the fallback agent gives its tools
ToolInputs == { <<"C","h","e","m"," ","-"," ","5","5">>, <<"r","e","p","o","r","t">> }

Inputs ==
  Messages \cup NameInputs \cup GradeMessages \cup GradeNames \cup ToolInputs
    \cup ScoreMessages \cup ReportRequests

\* every text the functions below are applied to: the inputs, and the
\* stripped messages chat passes on
Texts == Inputs \cup {strip(m) : m \in Inputs}

\* The functions of a text alone are tabulated over Texts.
ParsedPairs == [t \in Texts |-> parse_subject_scores(t)] @@ << >>

\* ------------------------------------------------------------------------
\* GLOBAL PER-SESSION STATE
\*   sessions     : session_id -> [name, marks]; marks is the dict as the
\*                  sequence of its (subject, score) items in insertion order
\*   memory_store : session_id -> the saved (input, output) turns
\*   agent_store  : session_id -> the agent, i.e. the session id its tool
\*                  wrappers and its memory are bound to
\* The three dicts are passed around as one record W and every function
\* that mutates them returns the new W.
\* ------------------------------------------------------------------------
\* Python's None for session["name"]; no str equals it
None == <<"None">>

get_memory(W, session_id) ==
  IF session_id \in DOMAIN W.memory_store THEN W
  ELSE [W EXCEPT !.memory_store = @ @@ (session_id :> << >>)]

get_or_create_session(W, session_id) ==
  IF session_id \in DOMAIN W.sessions THEN W
  ELSE [W EXCEPT !.sessions = @ @@ (session_id :> [name |-> None, marks |-> << >>])]

\* memory.save_context({"input": input}, {"output": output}) on the memory
\* of session_id.  The memory drops its oldest messages once the buffer
\* exceeds max_token_limit (8000 tokens); the histories of the model, at
\* most MaxCalls short turns, stay below it and are never pruned.
save_context(W, session_id, input, output) ==
  LET W1 == get_memory(W, session_id)
  IN [W1 EXCEPT !.memory_store[session_id] =
        Append(@, [input |-> input, output |-> output])]

\* A reply is the template that produced it together with the values
\* interpolated into it.
Reply(kind, text) ==
  [kind |-> kind, text |-> text, rows |-> << >>, avg |-> 0, overall |-> "", tone |-> ""]

\* dict_set that keeps the value a key already has
dict_set_keep_first(d, k, v) ==
  IF \E i \in 1..Len(d) : d[i][1] = k THEN d ELSE Append(d, <<k, v>>)

\* d[k] = v on a dict kept as its item sequence
dict_set(d, k, v) ==
  IF \E i \in 1..Len(d) : d[i][1] = k
  THEN [i \in 1..Len(d) |-> IF d[i][1] = k THEN <<k, v>> ELSE d[i]]
  ELSE Append(d, <<k, v>>)

RECURSIVE Total(_)
Total(marks) == IF marks = << >> THEN 0 ELSE marks[1][2] + Total(Tail(marks))

\* round(a / b) for integers a >= 0, b > 0: Python rounds halves to even
round_div(a, b) ==
  LET q == a \div b
      r == a % b
  IN IF 2 * r < b THEN q
     ELSE IF 2 * r > b THEN q + 1
     ELSE IF q % 2 = 0 THEN q ELSE q + 1

\* the table rows, f"{avg:.2f}" (in hundredths) and the overall grade
table_rows(marks) ==
  [i \in 1..Len(marks) |-> <<marks[i][1], marks[i][2], calculate_grade(marks[i][2])>>]

\* clamp without its upper limit
clamp_no_upper(score) == Max(0, score)

\* score = max(0, min(int(score), 100))
clamp(score) == Max(0, Min(score, 100))

RECURSIVE store_pairs(_, _)
store_pairs(marks, pairs) ==
  IF pairs = << >> THEN marks
  ELSE store_pairs(dict_set(marks, pairs[1][1], clamp(pairs[1][2])), Tail(pairs))

\* updated_grades_table whose average is an integer division
updated_grades_table_floor_avg(marks, total, n) ==
  [kind |-> "updated_grades",
   text |-> << >>,
   rows |-> table_rows(marks),
   avg |-> IF n = 0 THEN 0 ELSE 100 * (total \div n),
   overall |-> calculate_grade(IF n = 0 THEN 0 ELSE total \div n),
   tone |-> IF total >= 80 * n THEN "great_work"
            ELSE IF total >= 60 * n THEN "good_progress"
            ELSE IF total >= 40 * n THEN "passing"
            ELSE "low_scores"]

\* lines 122-154: the table of ALL marks held, the overall line, the
\* encouragement line chosen by the average, the legend.  avg is
\* f"{avg:.2f}" in hundredths.
updated_grades_table(marks, total, n) ==
  [kind |-> "updated_grades",
   text |-> << >>,
   rows |-> table_rows(marks),
   avg |-> IF n = 0 THEN 0 ELSE round_div(100 * total, n),
   overall |-> calculate_grade(IF n = 0 THEN 0 ELSE round_div(total, n)),
   tone |-> IF total >= 80 * n THEN "great_work"
            ELSE IF total >= 60 * n THEN "good_progress"
            ELSE IF total >= 40 * n THEN "passing"
            ELSE "low_scores"]

\* lines 118-154, once pairs were found: store, then render
store_and_render(W1, session_id, marks) ==
  [W |-> [W1 EXCEPT !.sessions[session_id].marks = marks],
   reply |-> updated_grades_table(marks, Total(marks), Len(marks))]

\* upsert that empties the marks when no pair was found
upsert_clearing(W1, session_id, pairs) ==
  IF pairs = << >>
  THEN [W |-> [W1 EXCEPT !.sessions[session_id].marks = << >>],
        reply |-> Reply("no_marks_found", << >>)]
  ELSE store_and_render(W1, session_id,
                        store_pairs(W1.sessions[session_id].marks, pairs))

upsert(W1, session_id, pairs) ==
  IF pairs = << >> THEN [W |-> W1, reply |-> Reply("no_marks_found", << >>)]
  ELSE store_and_render(W1, session_id,
                        store_pairs(W1.sessions[session_id].marks, pairs))

add_or_update_marks(W, text, session_id) ==
  upsert(get_or_create_session(W, session_id), session_id, ParsedPairs[text])

\* lines 164-182: the table, the overall line and the legend
grade_summary_table(marks, total, n) ==
  [kind |-> "grade_summary",
   text |-> << >>,
   rows |-> table_rows(marks),
   avg |-> round_div(100 * total, n),
   overall |-> calculate_grade(round_div(total, n)),
   tone |-> ""]

render(W1, marks) ==
  IF marks = << >> THEN [W |-> W1, reply |-> Reply("no_marks_saved", << >>)]
  ELSE [W |-> W1, reply |-> grade_summary_table(marks, Total(marks), Len(marks))]

\* show_marks_table that empties the marks it has shown
show_marks_table_clearing(W, session_id) ==
  [W |-> [get_or_create_session(W, session_id) EXCEPT !.sessions[session_id].marks = << >>],
   reply |-> render(get_or_create_session(W, session_id),
                    get_or_create_session(W, session_id).sessions[session_id].marks).reply]

show_marks_table(W, session_id) ==
  render(get_or_create_session(W, session_id),
         get_or_create_session(W, session_id).sessions[session_id].marks)

\* ------------------------------------------------------------------------
\* TOOLS
\* ------------------------------------------------------------------------
\* llm.invoke either raises or returns a completion; FAIL is the raise
FAIL == <<"FAIL">>

\* positive_prompt_tool / negative_prompt_tool: read the history, build the
\* prompt, return llm.invoke(prompt).content.strip(); gen is what the
\* service does with the prompt
positive_prompt_tool(W, text, session_id, gen) ==
  [W |-> get_memory(W, session_id),
   raised |-> gen = FAIL,
   reply |-> IF gen = FAIL THEN Reply("raised", << >>) ELSE Reply("generated", strip(gen))]

negative_prompt_tool(W, text, session_id, gen) ==
  [W |-> get_memory(W, session_id),
   raised |-> gen = FAIL,
   reply |-> IF gen = FAIL THEN Reply("raised", << >>) ELSE Reply("generated", strip(gen))]

SCALE_KEYWORDS == <<<<"s","c","a","l","e">>, <<"g","r","a","d","i","n","g">>, <<"c","r","i","t","e","r","i","a">>, <<"g","r","a","d","e"," ","r","a","n","g","e">>>>

REPORT_KEYWORDS ==
  <<<<"g","r","a","d","e">>, <<"g","r","a","d","e","s">>, <<"a","v","e","r","a","g","e">>, <<"m","a","r","k","s">>, <<"m","a","r","k">>, <<"r","e","s","u","l","t">>,
    <<"r","e","p","o","r","t">>, <<"t","a","b","l","e">>, <<"s","u","m","m","a","r","y">>>>

\* the three tests of student_marks_tool on its text
marks_tests(text) ==
  [scale |-> any_in(SCALE_KEYWORDS, lower(text)),
   has_number |-> \E i \in 1..Len(text) : text[i] \in Digits,
   wants_report |-> any_in(REPORT_KEYWORDS, lower(text))]

MarksTests == [t \in Texts |-> marks_tests(t)] @@ << >>

\* student_marks_tool testing for a number before the scale question
student_marks_tool_number_first(W, text, session_id) ==
  IF MarksTests[text].has_number THEN add_or_update_marks(W, text, session_id)
  ELSE IF MarksTests[text].scale THEN [W |-> W, reply |-> Reply("grade_scale", << >>)]
  ELSE IF MarksTests[text].wants_report THEN show_marks_table(W, session_id)
  ELSE [W |-> W, reply |-> Reply("tell_me_your_marks", << >>)]

student_marks_tool(W, text, session_id) ==
  IF MarksTests[text].scale THEN [W |-> W, reply |-> Reply("grade_scale", << >>)]
  ELSE IF MarksTests[text].has_number THEN add_or_update_marks(W, text, session_id)
  ELSE IF MarksTests[text].wants_report THEN show_marks_table(W, session_id)
  ELSE [W |-> W, reply |-> Reply("tell_me_your_marks", << >>)]

self_harm_safety_tool(text, session_id) == Reply("safety", << >>)

\* ------------------------------------------------------------------------
\* NAME HANDLING
\* ------------------------------------------------------------------------
NAME_INTROS == <<<<"m","y"," ","n","a","m","e"," ","i","s">>, <<"i"," ","a","m">>, <<"i","'","m">>, <<"t","h","i","s"," ","i","s">>>>

\* One attempt of (?:my name is|i am|i'm|this is)\s+([A-Za-z]+), IGNORECASE,
\* at index i: the first alternative after which whitespace and a letter follow
name_intro_at(s, i) ==
  LET fits(k) ==
        LET p == i + Len(NAME_INTROS[k])
            w == RunEnd(s, p, Whitespace)
        IN /\ p - 1 <= Len(s)
           /\ lower(SubSeq(s, i, p - 1)) = NAME_INTROS[k]
           /\ w > p
           /\ RunEnd(s, w, Letters) > w
      ks == {k \in 1..Len(NAME_INTROS) : fits(k)}
      k0 == CHOOSE k \in ks : \A k2 \in ks : k <= k2
      w0 == RunEnd(s, i + Len(NAME_INTROS[k0]), Whitespace)
  IN [ok |-> ks # {},
      group |-> IF ks = {} THEN << >> ELSE SubSeq(s, w0, RunEnd(s, w0, Letters) - 1)]

extract_name(text) ==
  LET hits == {i \in 1..Len(text) : name_intro_at(text, i).ok}
      first == CHOOSE i \in hits : \A j \in hits : i <= j
      tokens == split(strip(text))
  IN IF hits # {} THEN title(name_intro_at(text, first).group)
     ELSE IF tokens # << >> THEN title(tokens[Len(tokens)])
     ELSE <<"F","r","i","e","n","d">>

ExtractedNames == [t \in Texts |-> extract_name(t)] @@ << >>

\* bind_name without session["name"] = clean
bind_name_unstored(W1, session_id, clean) ==
  [W |-> save_context(W1, session_id, <<"M","y"," ","n","a","m","e"," ","i","s"," ">> \o clean, Reply("stored_name", clean)),
   reply |-> Reply("nice_to_meet_you", clean)]

\* bind_name that stores the name in a new session record
bind_name_new_record(W1, session_id, clean) ==
  [W |-> save_context([W1 EXCEPT !.sessions[session_id] = [name |-> clean, marks |-> << >>]],
                      session_id, <<"M","y"," ","n","a","m","e"," ","i","s"," ">> \o clean, Reply("stored_name", clean)),
   reply |-> Reply("nice_to_meet_you", clean)]

\* lines 361-369, with clean = extract_name(name)
bind_name(W1, session_id, clean) ==
  [W |-> save_context([W1 EXCEPT !.sessions[session_id].name = clean], session_id,
                      <<"M","y"," ","n","a","m","e"," ","i","s"," ">> \o clean, Reply("stored_name", clean)),
   reply |-> Reply("nice_to_meet_you", clean)]

set_name(W, name, session_id) ==
  bind_name(get_or_create_session(W, session_id), session_id, ExtractedNames[name])

\* ------------------------------------------------------------------------
\* LANGCHAIN AGENT (FALLBACK FOR GENERIC QUERIES)
\* ------------------------------------------------------------------------
\* get_agent whose tool wrappers read one global session id instead of
\* capturing their own
get_agent_global_sid(W, session_id) ==
  IF session_id \in DOMAIN W.agent_store THEN W
  ELSE [get_memory(W, session_id) EXCEPT !.agent_store =
          @ @@ (session_id :> [sid |-> <<"d","e","f","a","u","l","t">>, memory |-> session_id])]

\* get_agent: one agent per session; its tool wrappers capture session_id
\* (_sid=session_id) and it is given the memory of the session
get_agent(W, session_id) ==
  IF session_id \in DOMAIN W.agent_store THEN W
  ELSE [get_memory(W, session_id) EXCEPT !.agent_store =
          @ @@ (session_id :> [sid |-> session_id, memory |-> session_id])]

\* a tool that returned: its observation goes back to the agent
observed(r) == [W |-> r.W, raised |-> FALSE, reply |-> r.reply]

\* one tool call of the agent: the wrapper named call.tool applied to the
\* input the agent chose, with what the service does inside the tool
run_tool(W, agent, call) ==
  IF call.tool = "PositiveResponse"
  THEN positive_prompt_tool(W, call.input, agent.sid, call.gen)
  ELSE IF call.tool = "NegativeResponse"
  THEN negative_prompt_tool(W, call.input, agent.sid, call.gen)
  ELSE IF call.tool = "AcademicHelper"
  THEN observed(student_marks_tool(W, call.input, agent.sid))
  ELSE [W |-> W, raised |-> FALSE, reply |-> self_harm_safety_tool(<< >>, agent.sid)]

\* the tool calls of a plan in turn; an exception of a tool ends the run
RECURSIVE run_tools(_, _, _)
run_tools(r, agent, plan) ==
  IF r.raised \/ plan = << >> THEN r
  ELSE run_tools(run_tool(r.W, agent, Head(plan)), agent, Tail(plan))

\* the end of agent.run: the service gives the final answer (gen) and the
\* chain saves (text, answer) in the agent's memory, unless a tool or the
\* service raised
finish_run(r, agent, text, gen) ==
  IF r.raised \/ gen = FAIL
  THEN [W |-> r.W, raised |-> TRUE, reply |-> Reply("raised", << >>)]
  ELSE [W |-> save_context(r.W, agent.memory, text, Reply("generated", gen)),
        raised |-> FALSE,
        reply |-> Reply("generated", gen)]

\* agent.run(text) of the agent of session_id
agent_run(W, session_id, text, plan, gen) ==
  finish_run(run_tools([W |-> W, raised |-> FALSE], W.agent_store[session_id], plan),
             W.agent_store[session_id], text, gen)

\* ------------------------------------------------------------------------
\* MAIN CHAT ROUTER
\* ------------------------------------------------------------------------
SUICIDE_KEYWORDS ==
  <<<<"s","u","i","c","i","d","e">>, <<"k","i","l","l"," ","m","y","s","e","l","f">>, <<"w","a","n","t"," ","t","o"," ","d","i","e">>, <<"e","n","d"," ","m","y"," ","l","i","f","e">>,
    <<"h","u","r","t"," ","m","y","s","e","l","f">>, <<"n","o"," ","p","o","i","n","t"," ","l","i","v","i","n","g">>, <<"c","u","t"," ","m","y","s","e","l","f">>>>

EXIT_WORDS == <<<<"b","y","e">>, <<"g","o","o","d","b","y","e">>, <<"s","e","e"," ","y","o","u">>, <<"t","a","k","e"," ","c","a","r","e">>>>

ACADEMIC_KEYWORDS ==
  <<<<"g","r","a","d","e">>, <<"g","r","a","d","e","s">>, <<"s","c","o","r","e">>, <<"s","c","o","r","e","s">>, <<"m","a","r","k","s">>, <<"m","a","r","k">>,
    <<"a","v","e","r","a","g","e">>, <<"r","e","s","u","l","t">>, <<"r","e","p","o","r","t">>, <<"t","a","b","l","e">>>>

POSITIVE_WORDS ==
  <<<<"h","a","p","p","y">>, <<"e","x","c","i","t","e","d">>, <<"g","r","e","a","t">>, <<"a","w","e","s","o","m","e">>, <<"g","l","a","d">>, <<"d","e","l","i","g","h","t","e","d">>>>

NEGATIVE_WORDS ==
  <<<<"s","a","d">>, <<"u","p","s","e","t">>, <<"d","e","p","r","e","s","s","e","d">>, <<"s","t","r","e","s","s","e","d">>, <<"a","n","x","i","o","u","s">>, <<"w","o","r","r","i","e","d">>,
    <<"l","o","n","e","l","y">>, <<"t","i","r","e","d">>, <<"a","n","g","r","y">>, <<"f","r","u","s","t","r","a","t","e","d">>, <<"o","v","e","r","w","h","e","l","m","e","d">>>>

\* the conditions of the branches of chat, in the order chat tests them
is_safety(lo) == any_in(SUICIDE_KEYWORDS, lo)

is_exit(lo) == any_in(EXIT_WORDS, lo)

is_academic(text, lo) ==
  (\E i \in 1..Len(text) : text[i] \in Digits) \/ any_in(ACADEMIC_KEYWORDS, lo)

is_positive(lo) == any_in(POSITIVE_WORDS, lo)

is_negative(lo) == any_in(NEGATIVE_WORDS, lo)

\* router_tests matching the keywords against text instead of text.lower()
router_tests_case_sensitive(text) ==
  [safety |-> is_safety(text),
   exit |-> is_exit(lower(text)),
   academic |-> is_academic(text, lower(text)),
   positive |-> is_positive(lower(text)),
   negative |-> is_negative(lower(text))]

router_tests(text) ==
  [safety |-> is_safety(lower(text)),
   exit |-> is_exit(lower(text)),
   academic |-> is_academic(text, lower(text)),
   positive |-> is_positive(lower(text)),
   negative |-> is_negative(lower(text))]

RouterTests == [t \in Texts |-> router_tests(t)] @@ << >>

\* text = (message or "").strip()
Stripped == [m \in Inputs |-> strip(m)] @@ (None :> << >>)

\* how a call of chat ends: a returned reply, or an exception leaving chat
Return(W, route, reply) ==
  [W |-> W, route |-> route, outcome |-> "returned", reply |-> reply]

Raise(W, route) ==
  [W |-> W, route |-> route, outcome |-> "raised", reply |-> Reply("raised", << >>)]

\* save_and_return without the mem.save_context call
save_and_return_unsaved(r, session_id, text, route) ==
  IF r.raised THEN Raise(r.W, route) ELSE Return(r.W, route, r.reply)

\* reply = tool(...); mem.save_context({"input": text}, {"output": reply});
\* return reply.  An exception of the tool leaves chat before the save.
save_and_return(r, session_id, text, route) ==
  IF r.raised THEN Raise(r.W, route)
  ELSE Return(save_context(r.W, session_id, text, r.reply), route, r.reply)

\* try: return agent.run(text) / except Exception: return the fixed reply
try_agent(r) ==
  IF r.raised THEN Return(r.W, "fallback", Reply("trouble_understanding", << >>))
  ELSE Return(r.W, "fallback", r.reply)

\* return set_name(text, session_id)
name_phase(r) == Return(r.W, "name", r.reply)

\* name_pending that holds whether or not a name is bound
name_pending_always(name) == TRUE

\* if name is None
name_pending(name) == name = None

\* route with the positive-emotion test placed before the academic test
route_positive_first(W2, name, text, session_id, env) ==
  IF RouterTests[text].safety
  THEN save_and_return([W |-> W2, raised |-> FALSE,
                        reply |-> self_harm_safety_tool(text, session_id)],
                       session_id, text, "safety")
  ELSE IF RouterTests[text].exit
  THEN Return(W2, "exit",
              Reply("bye", IF name = None \/ name = << >> THEN <<"F","r","i","e","n","d">> ELSE name))
  ELSE IF name_pending(name)
  THEN name_phase(set_name(W2, text, session_id))
  ELSE IF RouterTests[text].positive
  THEN save_and_return(positive_prompt_tool(W2, text, session_id, env.gen),
                       session_id, text, "positive")
  ELSE IF RouterTests[text].academic
  THEN save_and_return(observed(student_marks_tool(W2, text, session_id)),
                       session_id, text, "academic")
  ELSE IF RouterTests[text].negative
  THEN save_and_return(negative_prompt_tool(W2, text, session_id, env.gen),
                       session_id, text, "negative")
  ELSE try_agent(agent_run(W2, session_id, text, env.plan, env.gen))

\* route whose safety branch asks the service for its reply
route_safety_generated(W2, name, text, session_id, env) ==
  IF RouterTests[text].safety
  THEN save_and_return(positive_prompt_tool(W2, text, session_id, env.gen),
                       session_id, text, "safety")
  ELSE IF RouterTests[text].exit
  THEN Return(W2, "exit",
              Reply("bye", IF name = None \/ name = << >> THEN <<"F","r","i","e","n","d">> ELSE name))
  ELSE IF name_pending(name)
  THEN name_phase(set_name(W2, text, session_id))
  ELSE IF RouterTests[text].academic
  THEN save_and_return(observed(student_marks_tool(W2, text, session_id)),
                       session_id, text, "academic")
  ELSE IF RouterTests[text].positive
  THEN save_and_return(positive_prompt_tool(W2, text, session_id, env.gen),
                       session_id, text, "positive")
  ELSE IF RouterTests[text].negative
  THEN save_and_return(negative_prompt_tool(W2, text, session_id, env.gen),
                       session_id, text, "negative")
  ELSE try_agent(agent_run(W2, session_id, text, env.plan, env.gen))

\* route whose exit branch saves the turn in the history
route_exit_saved(W2, name, text, session_id, env) ==
  IF RouterTests[text].safety
  THEN save_and_return([W |-> W2, raised |-> FALSE,
                        reply |-> self_harm_safety_tool(text, session_id)],
                       session_id, text, "safety")
  ELSE IF RouterTests[text].exit
  THEN save_and_return([W |-> W2, raised |-> FALSE,
                        reply |-> Reply("bye", IF name = None \/ name = << >>
                                               THEN <<"F","r","i","e","n","d">> ELSE name)],
                       session_id, text, "exit")
  ELSE IF name_pending(name)
  THEN name_phase(set_name(W2, text, session_id))
  ELSE IF RouterTests[text].academic
  THEN save_and_return(observed(student_marks_tool(W2, text, session_id)),
                       session_id, text, "academic")
  ELSE IF RouterTests[text].positive
  THEN save_and_return(positive_prompt_tool(W2, text, session_id, env.gen),
                       session_id, text, "positive")
  ELSE IF RouterTests[text].negative
  THEN save_and_return(negative_prompt_tool(W2, text, session_id, env.gen),
                       session_id, text, "negative")
  ELSE try_agent(agent_run(W2, session_id, text, env.plan, env.gen))

\* the branches of chat for a non-empty text, W2 being the dicts after
\* get_agent and get_or_create_session and name the session's name
route(W2, name, text, session_id, env) ==
  IF RouterTests[text].safety
  THEN save_and_return([W |-> W2, raised |-> FALSE,
                        reply |-> self_harm_safety_tool(text, session_id)],
                       session_id, text, "safety")
  ELSE IF RouterTests[text].exit
  THEN Return(W2, "exit",
              Reply("bye", IF name = None \/ name = << >> THEN <<"F","r","i","e","n","d">> ELSE name))
  ELSE IF name_pending(name)
  THEN name_phase(set_name(W2, text, session_id))
  ELSE IF RouterTests[text].academic
  THEN save_and_return(observed(student_marks_tool(W2, text, session_id)),
                       session_id, text, "academic")
  ELSE IF RouterTests[text].positive
  THEN save_and_return(positive_prompt_tool(W2, text, session_id, env.gen),
                       session_id, text, "positive")
  ELSE IF RouterTests[text].negative
  THEN save_and_return(negative_prompt_tool(W2, text, session_id, env.gen),
                       session_id, text, "negative")
  ELSE try_agent(agent_run(W2, session_id, text, env.plan, env.gen))

\* enter without the test for an empty text
enter_unchecked(W2, message, session_id, env) ==
  route(W2, W2.sessions[session_id].name, Stripped[message], session_id, env)

\* the head of chat: the agent and the session are fetched (and created)
\* before the message is looked at
enter(W2, message, session_id, env) ==
  IF Stripped[message] = << >>
  THEN Return(W2, "empty", Reply("please_type", << >>))
  ELSE route(W2, W2.sessions[session_id].name, Stripped[message], session_id, env)

\* chat(message, session_id); env is what the text-generation service does
\* during the call: env.gen is the outcome of the call that produces the
\* reply, env.plan the tool calls the fallback agent chooses
chat(W, message, session_id, env) ==
  enter(get_or_create_session(get_agent(W, session_id), session_id),
        message, session_id, env)

\* ------------------------------------------------------------------------
\* The service process: the three global dicts, the last call it handled
\* and the number of calls handled
\* ------------------------------------------------------------------------
\* solo[s] is the state of a process that handled only the calls for
\* session s, each with the same outcome of the service
VARIABLES sessions, memory_store, agent_store, last, calls, solo

vars == <<sessions, memory_store, agent_store, last, calls, solo>>

\* number of calls a run of the model handles
MaxCalls == 3

\* number of tool calls the fallback agent makes in one run
MaxToolCalls == 1

\* completions of the text-generation service (content before .strip())
Completions == {<<" ","Y","o","u"," ","d","i","d"," ","w","e","l","l","!"," ">>}

LLMOutcomes == Completions \cup {FAIL}

\* the tool calls the fallback agent may choose
ToolCalls ==
  [tool : {"AcademicHelper"}, input : ToolInputs, gen : Completions]
    \cup [tool : {"PositiveResponse", "NegativeResponse"}, input : {<<"r","e","p","o","r","t">>},
          gen : LLMOutcomes]
    \cup [tool : {"Safety"}, input : {<<"r","e","p","o","r","t">>}, gen : Completions]

RECURSIVE PlansUpTo(_)
PlansUpTo(n) ==
  IF n = 0 THEN {<< >>}
  ELSE PlansUpTo(n - 1)
         \cup {Append(p, c) : p \in {q \in PlansUpTo(n - 1) : Len(q) = n - 1}, c \in ToolCalls}

Plans == PlansUpTo(MaxToolCalls)

NoEnv == [gen |-> FAIL, plan |-> << >>]

\* what the service can do during a call, by the branch the call takes:
\* only the positive, negative and fallback branches reach the service
EnvsOf(r) ==
  IF r.route \in {"positive", "negative"}
  THEN {[gen |-> g, plan |-> << >>] : g \in LLMOutcomes}
  ELSE IF r.route = "fallback" THEN [gen : LLMOutcomes, plan : Plans]
  ELSE {NoEnv}

World == [sessions |-> sessions, memory_store |-> memory_store, agent_store |-> agent_store]

Init ==
  /\ sessions = << >>
  /\ memory_store = << >>
  /\ agent_store = << >>
  /\ last = [op |-> "none", session_id |-> << >>, message |-> << >>,
             route |-> "", outcome |-> "", reply |-> Reply("", << >>)]
  /\ calls = 0
  /\ solo = [s \in SessionIds |->
               [sessions |-> << >>, memory_store |-> << >>, agent_store |-> << >>]]

\* the process after a call that ended as r; alone is the end of the same
\* call in the process that handles only this session
Handled(r, alone, op, session_id, message) ==
  /\ sessions' = r.W.sessions
  /\ memory_store' = r.W.memory_store
  /\ agent_store' = r.W.agent_store
  /\ last' = [op |-> op, session_id |-> session_id, message |-> message,
              route |-> r.route, outcome |-> r.outcome, reply |-> r.reply]
  /\ calls' = calls + 1
  /\ solo' = [solo EXCEPT ![session_id] = alone.W]

\* POST /chat
Chat(session_id, message) ==
  /\ calls < MaxCalls
  /\ \E env \in EnvsOf(chat(World, message, session_id, NoEnv)) :
       Handled(chat(World, message, session_id, env),
               chat(solo[session_id], message, session_id, env),
               "chat", session_id, message)

\* POST /set-name
SetName(session_id, name) ==
  /\ calls < MaxCalls
  /\ Handled(name_phase(set_name(World, name, session_id)),
             name_phase(set_name(solo[session_id], name, session_id)),
             "set_name", session_id, name)

NextOver(sids, msgs, names) ==
  \/ \E s \in sids, m \in msgs : Chat(s, m)
  \/ \E s \in sids, n \in names : SetName(s, n)

Next == NextOver(SessionIds, Messages, NameInputs)

Spec == Init /\ [][Next]_vars

\* one session, the messages about marks and grades
NextGrades == NextOver({<<"d","e","f","a","u","l","t">>}, GradeMessages, GradeNames)

SpecGrades == Init /\ [][NextGrades]_vars

\* the process in which set_name("Rahul") and then chat of one message of
\* ScoreMessages were handled for session "default"; calls counts the
\* calls handled after these two
Reached(r, session_id, message) ==
  /\ sessions = r.W.sessions
  /\ memory_store = r.W.memory_store
  /\ agent_store = r.W.agent_store
  /\ last = [op |-> "chat", session_id |-> session_id, message |-> message,
             route |-> r.route, outcome |-> r.outcome, reply |-> r.reply]
  /\ calls = 0
  /\ solo = [s \in SessionIds |->
               IF s = session_id THEN r.W
               ELSE [sessions |-> << >>, memory_store |-> << >>, agent_store |-> << >>]]

InitReport ==
  \E m \in ScoreMessages :
    Reached(chat(set_name([sessions |-> << >>, memory_store |-> << >>,
                           agent_store |-> << >>], <<"R","a","h","u","l">>, <<"d","e","f","a","u","l","t">>).W,
                 m, <<"d","e","f","a","u","l","t">>, NoEnv),
            <<"d","e","f","a","u","l","t">>, m)

NextReport == \E m \in ReportRequests : Chat(<<"d","e","f","a","u","l","t">>, m)

\* one session that holds one mark, the requests about the marks held
SpecReport == InitReport /\ [][NextReport]_vars

\* messages with and without content; None is an absent message
BlankTurnMessages ==
  { None, << >>, <<" "," ">>, <<"M","a","t","h","s"," ","-"," ","7","0">>, <<"i"," ","f","e","e","l"," ","s","a","d">>, <<"o","k"," ","b","y","e"," ","9","0"," ","h","a","p","p","y">> }

NextBlank == NextOver({<<"d","e","f","a","u","l","t">>}, BlankTurnMessages, GradeNames)

SpecBlank == Init /\ [][NextBlank]_vars
\* ------------------------------------------------------------------------
\* Properties
\* ------------------------------------------------------------------------
\* a session as a caller sees it; a session no call has named yet is the
\* fresh session get_or_create_session would create
NameIn(ss, s) == IF s \in DOMAIN ss THEN ss[s].name ELSE None

MarksIn(ss, s) == IF s \in DOMAIN ss THEN ss[s].marks ELSE << >>

HistoryIn(ms, s) == IF s \in DOMAIN ms THEN ms[s] ELSE << >>

SessionView(W, s) ==
  [name |-> NameIn(W.sessions, s),
   marks |-> MarksIn(W.sessions, s),
   history |-> HistoryIn(W.memory_store, s)]

\* the lower-cased message contains one of the phrases
Mentions(m, phrases) == \E k \in 1..Len(phrases) : contains(lower(m), phrases[k])

HasDigit(m) == \E i \in 1..Len(m) : m[i] \in Digits

AllMessages == Messages \cup GradeMessages

BlankMessages == {m \in AllMessages : \A i \in 1..Len(m) : m[i] = " "}

TriggerMessages == {m \in AllMessages : Mentions(m, SUICIDE_KEYWORDS)}

ExitMessages == {m \in AllMessages : Mentions(m, EXIT_WORDS)}

AcademicMessages == {m \in AllMessages : HasDigit(m) \/ Mentions(m, ACADEMIC_KEYWORDS)}

PositiveMessages == {m \in AllMessages : Mentions(m, POSITIVE_WORDS)}

NegativeMessages == {m \in AllMessages : Mentions(m, NEGATIVE_WORDS)}

\* the value stored under key k of a dict
Lookup(d, k) == d[CHOOSE i \in 1..Len(d) : d[i][1] = k][2]

Keys(d) == {d[i][1] : i \in 1..Len(d)}

\* C1: a chat call whose message contains a self-harm trigger phrase returns
\* the fixed safety reply, whatever else the message contains and whether or
\* not the name is bound, and the turn leaves the session's name and marks
\* as they were.
C1_SafetyOverride ==
  [][(last'.op = "chat" /\ last'.message \in TriggerMessages)
       => /\ last'.outcome = "returned"
          /\ last'.reply = Reply("safety", << >>)
          /\ NameIn(sessions', last'.session_id) = NameIn(sessions, last'.session_id)
          /\ MarksIn(sessions', last'.session_id) = MarksIn(sessions, last'.session_id)]_vars

\* a safety turn in a session with no name, on a message that also holds a
\* farewell, a digit, a grading keyword and emotion words
C1_Witness ==
  /\ last.op = "chat"
  /\ last.route = "safety"
  /\ NameIn(sessions, last.session_id) = None
  /\ last.message \in TriggerMessages \cap ExitMessages \cap AcademicMessages
                        \cap PositiveMessages \cap NegativeMessages
  /\ HasDigit(last.message)

\* C2: a chat call never changes a bound name; chat takes the name branch
\* only in a session whose name is unset, and the branch binds it, so a
\* session takes it at most once and only set_name rebinds a name.
C2_BoundNameKept ==
  [][last'.op = "chat"
       => /\ \A s \in SessionIds :
               NameIn(sessions, s) # None => NameIn(sessions', s) = NameIn(sessions, s)
          /\ last'.route = "name"
               => /\ NameIn(sessions, last'.session_id) = None
                  /\ NameIn(sessions', last'.session_id) # None]_vars

\* a message that introduces a name, sent to a session whose name is bound
C2_Witness ==
  /\ last.op = "chat"
  /\ last.message = <<" ","H","e","l","l","o"," ","I"," ","a","m"," ","P","r","i","y","a">>
  /\ last.route = "fallback"
  /\ NameIn(sessions, last.session_id) = <<"A","r","j","u","n">>

\* C3 as claimed: the first chat call of a session whose name is unset binds
\* the name and returns the name acknowledgment.  (get_agent creates the
\* session's agent in its first chat call.)
C3_FirstTurnBinds ==
  [][(/\ last'.op = "chat"
      /\ last'.session_id \notin DOMAIN agent_store
      /\ NameIn(sessions, last'.session_id) = None)
       => /\ NameIn(sessions', last'.session_id) # None
          /\ last'.reply.kind = "nice_to_meet_you"]_vars

\* C3 as amended: in a session whose name is unset, a chat call whose
\* message is not blank and contains neither a safety trigger nor an exit
\* phrase binds the name, whatever the message says, and returns the
\* acknowledgment addressed to that name; a blank, safety or exit turn
\* leaves the name unset.
C3_NameStep ==
  [][(last'.op = "chat" /\ NameIn(sessions, last'.session_id) = None)
       => IF last'.message \in BlankMessages \cup TriggerMessages \cup ExitMessages
          THEN /\ last'.route # "name"
               /\ NameIn(sessions', last'.session_id) = None
          ELSE /\ last'.route = "name"
               /\ NameIn(sessions', last'.session_id) # None
               /\ last'.reply =
                    Reply("nice_to_meet_you", NameIn(sessions', last'.session_id))
               /\ last'.message = <<" ","H","e","l","l","o"," ","I"," ","a","m"," ","P","r","i","y","a">>
                    => NameIn(sessions', last'.session_id) = <<"P","r","i","y","a">>]_vars

\* a first turn about marks is taken as the name
C3_Witness ==
  /\ last.op = "chat"
  /\ last.route = "name"
  /\ last.message = <<"M","a","t","h","s"," ","-"," ","9","1",","," ","P","h","y","s","i","c","s"," ","-"," ","8","0",","," ","g","r","e","a","t","!">>
  /\ NameIn(sessions, last.session_id) = <<"G","r","e","a","t","!">>

\* C4: an upsert stores the pairs of exactly one strategy, the first of
\* "Subject sep Score", "Score in Subject" and the token scan that finds a
\* pair; pairs of different strategies are never merged.
OneStrategy(text) ==
  IF subject_sep_score(text) # << >> THEN subject_sep_score(text)
  ELSE IF score_in_subject(text) # << >> THEN score_in_subject(text)
  ELSE adjacent_tokens(text)

OneStrategyPairs == [m \in GradeMessages |-> OneStrategy(strip(m))] @@ << >>

C4_OneStrategyOnly ==
  [][(last'.op = "chat" /\ last'.route = "academic"
      /\ last'.reply.kind = "updated_grades")
       => MarksIn(sessions', last'.session_id)
            = store_pairs(MarksIn(sessions, last'.session_id),
                          OneStrategyPairs[last'.message])]_vars

\* C5: for a message that is not blank, chat takes the first branch, in the
\* order safety, exit, name, academic, positive, negative, fallback, whose
\* condition holds, and has the effects of that branch alone.
FirstMatch(m, name) ==
  IF m \in TriggerMessages THEN "safety"
  ELSE IF m \in ExitMessages THEN "exit"
  ELSE IF name = None THEN "name"
  ELSE IF m \in AcademicMessages THEN "academic"
  ELSE IF m \in PositiveMessages THEN "positive"
  ELSE IF m \in NegativeMessages THEN "negative"
  ELSE "fallback"

GradeEngineReplies ==
  {"updated_grades", "no_marks_found", "grade_summary", "no_marks_saved",
   "grade_scale", "tell_me_your_marks"}

C5_RoutingPriority ==
  [][(last'.op = "chat" /\ last'.message \notin BlankMessages)
       => /\ last'.route = FirstMatch(last'.message, NameIn(sessions, last'.session_id))
          /\ last'.route = "safety" => last'.reply.kind = "safety"
          /\ last'.route = "exit"
               => /\ last'.reply.kind = "bye"
                  /\ NameIn(sessions', last'.session_id) = NameIn(sessions, last'.session_id)
          /\ last'.route = "name" => last'.reply.kind = "nice_to_meet_you"
          /\ last'.route = "academic" => last'.reply.kind \in GradeEngineReplies
          /\ last'.route \in {"positive", "negative"}
               => last'.reply.kind \in {"generated", "raised"}
          /\ last'.route = "fallback"
               => last'.reply.kind \in {"generated", "trouble_understanding"}
          /\ last'.route # "name"
               => NameIn(sessions', last'.session_id) = NameIn(sessions, last'.session_id)
          /\ last'.route \notin {"academic", "fallback"}
               => MarksIn(sessions', last'.session_id) = MarksIn(sessions, last'.session_id)]_vars

\* a message with digits and a positive word, name bound: the Grade Engine
C5_Witness ==
  /\ last.op = "chat"
  /\ last.message = <<"M","a","t","h","s"," ","-"," ","9","1",","," ","P","h","y","s","i","c","s"," ","-"," ","8","0",","," ","g","r","e","a","t","!">>
  /\ last.message \in PositiveMessages
  /\ last.route = "academic"
  /\ last.reply.kind = "updated_grades"

ScaleMessages == {m \in AllMessages : Mentions(m, SCALE_KEYWORDS)}

ReportMessages == {m \in AllMessages : Mentions(m, REPORT_KEYWORDS)}

C7_EveryBranchAppends ==
  [][(last'.op = "chat"
      /\ last'.route \in {"safety", "exit", "academic", "positive", "negative", "fallback"})
       => HistoryIn(memory_store', last'.session_id)
            = Append(HistoryIn(memory_store, last'.session_id),
                     [input |-> strip(last'.message), output |-> last'.reply])]_vars

\* C7 as amended: a safety or academic turn, and a positive, negative or
\* fallback turn whose generation succeeds, appends exactly the pair
\* (stripped message, returned reply) to the history of the session; an
\* exit turn and a turn whose generation fails append nothing.
C7_HistoryAppend ==
  [][last'.op = "chat"
       => LET before == HistoryIn(memory_store, last'.session_id)
              after == HistoryIn(memory_store', last'.session_id)
          IN /\ (\/ last'.route \in {"safety", "academic"}
                 \/ /\ last'.route \in {"positive", "negative", "fallback"}
                    /\ last'.reply.kind = "generated")
                  => after = Append(before, [input |-> strip(last'.message),
                                             output |-> last'.reply])
             /\ (\/ last'.route = "exit"
                 \/ /\ last'.route \in {"positive", "negative", "fallback"}
                    /\ last'.reply.kind # "generated")
                  => after = before]_vars

\* a positive turn answered by the service, after an earlier saved turn
C7_Witness ==
  /\ last.op = "chat"
  /\ last.route = "positive"
  /\ last.outcome = "returned"
  /\ Len(HistoryIn(memory_store, last.session_id)) = 2
  /\ HistoryIn(memory_store, last.session_id)[2]
       = [input |-> <<"I"," ","a","m"," ","h","a","p","p","y"," ","b","u","t"," ","s","a","d">>, output |-> Reply("generated", <<"Y","o","u"," ","d","i","d"," ","w","e","l","l","!">>)]

\* C8: a failure of the text-generation service never leaves chat as an
\* exception: every chat call returns a reply.
C8_ChatNeverRaises == last.op = "chat" => last.outcome = "returned"

\* C9: whatever the interleaving of the calls for different session keys,
\* the name, marks and history of every session are those of a process that
\* handled the calls of that session alone.
C9_SessionIsolation ==
  \A s \in SessionIds : SessionView(World, s) = SessionView(solo[s], s)

\* two sessions, each with its own name, one of them with marks
C9_Witness ==
  \E a \in SessionIds, b \in SessionIds :
    /\ a # b
    /\ NameIn(sessions, a) \notin {None, NameIn(sessions, b)}
    /\ NameIn(sessions, b) # None
    /\ MarksIn(sessions, a) # << >>
    /\ MarksIn(sessions, b) = << >>
    /\ last.session_id = b

\* C10: every stored score is an integer in 0..100; an upsert stores 100
\* for a parsed score above 100 and 0 for one below 0.
Clamped(score) == IF score > 100 THEN 100 ELSE IF score < 0 THEN 0 ELSE score

C10_ScoresClamped ==
  /\ \A s \in DOMAIN sessions :
       \A i \in 1..Len(sessions[s].marks) : sessions[s].marks[i][2] \in 0..100
  /\ (last.op = "chat" /\ last.reply.kind = "updated_grades")
       => LET pairs == ParsedPairs[strip(last.message)]
              marks == MarksIn(sessions, last.session_id)
          IN \A i \in 1..Len(pairs) :
               (\A j \in (i + 1)..Len(pairs) : pairs[j][1] # pairs[i][1])
                 => Lookup(marks, pairs[i][1]) = Clamped(pairs[i][2])
  /\ \A score \in -5..150 : clamp(score) = Clamped(score)

\* an upsert of 1500 stored 100
C10_Witness ==
  /\ last.op = "chat"
  /\ last.message = <<"M","a","t","h","s"," ","1","5","0","0"," ","A","r","t"," ","7">>
  /\ MarksIn(sessions, last.session_id) = << <<<<"M","a","t","h","s">>, 100>>, <<<<"A","r","t">>, 7>> >>

\* C11: marks holds one entry per normalised (trimmed, title-cased) subject
\* ever parsed; an upsert gives every subject of its pairs the clamped score
\* of the last pair that names it, also when a message names a subject
\* twice, and leaves the scores of the other subjects as they were.
Subjects(pairs) == {pairs[i][1] : i \in 1..Len(pairs)}

LastWriteWins(before, pairs, after) ==
  /\ \A i \in 1..Len(after), j \in 1..Len(after) : after[i][1] = after[j][1] => i = j
  /\ \A k \in Keys(after) : k = title(strip(k))
  /\ Keys(after) = Keys(before) \cup Subjects(pairs)
  /\ \A i \in 1..Len(pairs) :
       (\A j \in (i + 1)..Len(pairs) : pairs[j][1] # pairs[i][1])
         => Lookup(after, pairs[i][1]) = Clamped(pairs[i][2])
  /\ \A k \in Keys(before) \ Subjects(pairs) : Lookup(after, k) = Lookup(before, k)

C11_LastWriteWins ==
  [][last'.op = "chat"
       => LET before == MarksIn(sessions, last'.session_id)
              after == MarksIn(sessions', last'.session_id)
              text == strip(last'.message)
          IN /\ (last'.route = "academic" /\ last'.reply.kind = "updated_grades")
                  => LastWriteWins(before, ParsedPairs[text], after)
             /\ after # before
                  => \E t \in {text} \cup ToolInputs :
                       /\ ParsedPairs[t] # << >>
                       /\ LastWriteWins(before, ParsedPairs[t], after)]_vars

\* a message that names Maths twice, in a session that holds Maths and Physics
C11_Witness ==
  /\ last.op = "chat"
  /\ last.message = <<"M","a","t","h","s"," ","-"," ","7","0",","," ","m","a","t","h","s"," ","-"," ","9","5">>
  /\ last.reply.kind = "updated_grades"
  /\ MarksIn(sessions, last.session_id) = << <<<<"M","a","t","h","s">>, 95>>, <<<<"P","h","y","s","i","c","s">>, 80>> >>

\* C12: a render leaves the marks of the session as they were, and returns
\* what every earlier render of the session returned since the last upsert.
RenderReplies == {"grade_summary", "no_marks_saved"}

\* entry j of history h is followed by no upsert
NoUpsertSince(h, j) == \A k \in (j + 1)..Len(h) : h[k].output.kind # "updated_grades"

C12_RenderRepeatable ==
  [][(last'.op = "chat" /\ last'.route = "academic" /\ last'.reply.kind \in RenderReplies)
       => LET h == HistoryIn(memory_store, last'.session_id)
          IN /\ MarksIn(sessions', last'.session_id) = MarksIn(sessions, last'.session_id)
             /\ \A j \in 1..Len(h) :
                  (h[j].output.kind \in RenderReplies /\ NoUpsertSince(h, j))
                    => h[j].output = last'.reply]_vars

\* two renders of two subjects, one after the other
C12_Witness ==
  LET h == HistoryIn(memory_store, last.session_id)
  IN /\ last.op = "chat"
     /\ last.message = <<"s","h","o","w"," ","m","y"," ","g","r","a","d","e","s">>
     /\ Len(h) = 5
     /\ h[4].output.kind = "grade_summary"
     /\ h[5].output = h[4].output
     /\ Len(h[5].output.rows) = 2

\* C13: a render that follows an upsert, with no upsert between them,
\* returns the table of the upsert reply: the same rows in the same order,
\* the same overall average and overall grade, the same encouragement line.
C13_RenderSameAsUpsert ==
  [][(last'.op = "chat" /\ last'.route = "academic" /\ last'.reply.kind = "grade_summary")
       => LET h == HistoryIn(memory_store, last'.session_id)
          IN \A j \in 1..Len(h) :
               (h[j].output.kind = "updated_grades" /\ NoUpsertSince(h, j))
                 => /\ h[j].output.rows = last'.reply.rows
                    /\ h[j].output.avg = last'.reply.avg
                    /\ h[j].output.overall = last'.reply.overall
                    /\ h[j].output.tone = last'.reply.tone]_vars

\* C15: calculate_grade gives every score of 0..100 the highest of the
\* grades S, A, B, C, D, E, F whose lower limit (90, 80, 70, 60, 50, 40, 0)
\* the score reaches; the grade never improves when the score drops; each
\* of 90, 80, 70, 60, 50, 40 gets the higher grade and the score one below
\* it the next lower grade.  Every row of a table shows that grade.
GradeOrder == <<"F", "E", "D", "C", "B", "A", "S">>

LowerLimit == <<0, 40, 50, 60, 70, 80, 90>>

Rank(grade) == CHOOSE i \in 1..Len(GradeOrder) : GradeOrder[i] = grade

Graded(score, grade) ==
  /\ \E i \in 1..Len(GradeOrder) : GradeOrder[i] = grade
  /\ LowerLimit[Rank(grade)] <= score
  /\ \A i \in (Rank(grade) + 1)..Len(GradeOrder) : score < LowerLimit[i]

C15_GradeScale ==
  /\ \A score \in Scores : Graded(score, calculate_grade(score))
  /\ \A score \in Scores \ {0} :
       Rank(calculate_grade(score - 1)) <= Rank(calculate_grade(score))
  /\ \A i \in 2..Len(GradeOrder) :
       /\ calculate_grade(LowerLimit[i]) = GradeOrder[i]
       /\ calculate_grade(LowerLimit[i] - 1) = GradeOrder[i - 1]
  /\ \A i \in 1..Len(last.reply.rows) :
       Graded(last.reply.rows[i][2], last.reply.rows[i][3])

\* the table of a session that holds the limit 90 and a score below it
C15_Witness ==
  /\ last.reply.kind = "grade_summary"
  /\ last.reply.rows = << <<<<"M","a","t","h","s">>, 90, "S">>, <<<<"P","h","y","s","i","c","s">>, 80, "A">> >>

\* C14 as claimed: in a fresh session the turn "hi, I'm Rahul" is answered
\* with the acknowledgment that names Rahul, and the turn "Maths - 91,
\* Physics - 80" after it with the table of Maths 91 grade A and Physics 80
\* grade A, the overall average 85.50 and the overall grade A.
C14_ScenarioMathsA ==
  [][(/\ calls = 1
      /\ last.op = "chat"
      /\ last.message = <<"h","i",","," ","I","'","m"," ","R","a","h","u","l">>
      /\ last'.op = "chat"
      /\ last'.session_id = last.session_id
      /\ last'.message = <<"M","a","t","h","s"," ","-"," ","9","1",","," ","P","h","y","s","i","c","s"," ","-"," ","8","0">>)
       => /\ last.reply = Reply("nice_to_meet_you", <<"R","a","h","u","l">>)
          /\ last'.reply.kind = "updated_grades"
          /\ last'.reply.rows = << <<<<"M","a","t","h","s">>, 91, "A">>, <<<<"P","h","y","s","i","c","s">>, 80, "A">> >>
          /\ last'.reply.avg = 8550
          /\ last'.reply.overall = "A"]_vars

\* C14 as amended: the table lists Maths 91 with grade S (91 >= 90) and
\* Physics 80 with grade A, the overall average 85.50 and the overall
\* grade A; the marks stored are Maths 91 and Physics 80.
C14_Scenario ==
  [][(/\ calls = 1
      /\ last.op = "chat"
      /\ last.message = <<"h","i",","," ","I","'","m"," ","R","a","h","u","l">>
      /\ last'.op = "chat"
      /\ last'.session_id = last.session_id
      /\ last'.message = <<"M","a","t","h","s"," ","-"," ","9","1",","," ","P","h","y","s","i","c","s"," ","-"," ","8","0">>)
       => /\ last.reply = Reply("nice_to_meet_you", <<"R","a","h","u","l">>)
          /\ last'.reply.kind = "updated_grades"
          /\ last'.reply.rows = << <<<<"M","a","t","h","s">>, 91, "S">>, <<<<"P","h","y","s","i","c","s">>, 80, "A">> >>
          /\ last'.reply.avg = 8550
          /\ last'.reply.overall = "A"
          /\ MarksIn(sessions', last'.session_id)
               = << <<<<"M","a","t","h","s">>, 91>>, <<<<"P","h","y","s","i","c","s">>, 80>> >>]_vars

\* the second turn of the scenario
C14_Witness ==
  /\ calls = 2
  /\ last.op = "chat"
  /\ last.message = <<"M","a","t","h","s"," ","-"," ","9","1",","," ","P","h","y","s","i","c","s"," ","-"," ","8","0">>
  /\ NameIn(sessions, last.session_id) = <<"R","a","h","u","l">>
  /\ HistoryIn(memory_store, last.session_id)[1].input = <<"M","y"," ","n","a","m","e"," ","i","s"," ","R","a","h","u","l">>
  /\ last.reply.avg = 8550

\* C16: an upsert request in which no (subject, score) pair is found is
\* answered with the guidance message and leaves the session's marks (and
\* its name) exactly as they were.
C16_ParseFailureKeepsMarks ==
  [][(/\ last'.op = "chat"
      /\ last'.route = "academic"
      /\ \/ last'.reply.kind = "no_marks_found"
         \/ /\ last'.message \notin ScaleMessages
            /\ HasDigit(last'.message)
            /\ ParsedPairs[strip(last'.message)] = << >>)
       => /\ last'.reply = Reply("no_marks_found", << >>)
          /\ ParsedPairs[strip(last'.message)] = << >>
          /\ sessions'[last'.session_id] = sessions[last'.session_id]]_vars

\* a number but no pair, in a session that holds marks
C16_Witness ==
  /\ last.op = "chat"
  /\ last.message = <<"r","o","o","m","1","0","1">>
  /\ last.reply.kind = "no_marks_found"
  /\ Len(MarksIn(sessions, last.session_id)) = 2

\* C17: a chat call whose message is absent, empty or only whitespace
\* returns the "please type something" prompt, whatever the state of the
\* session, and leaves its name (also an unset one), marks and history as
\* they were.
Blank(m) == m = None \/ \A i \in 1..Len(m) : m[i] \in Whitespace

C17_BlankTurn ==
  [][(last'.op = "chat" /\ Blank(last'.message))
       => /\ last'.outcome = "returned"
          /\ last'.reply = Reply("please_type", << >>)
          /\ NameIn(sessions', last'.session_id) = NameIn(sessions, last'.session_id)
          /\ MarksIn(sessions', last'.session_id) = MarksIn(sessions, last'.session_id)
          /\ HistoryIn(memory_store', last'.session_id)
               = HistoryIn(memory_store, last'.session_id)]_vars

\* an absent message as the first turn of a session: no name is bound
C17_Witness ==
  /\ last.op = "chat"
  /\ last.message = None
  /\ last.reply.kind = "please_type"
  /\ NameIn(sessions, last.session_id) = None

\* C18: a chat call whose message holds a safety trigger returns the fixed
\* safety reply and reaches the same state whatever the text-generation
\* service would do during the call, also when each of its calls fails.
ServiceBehaviours == [gen : LLMOutcomes, plan : Plans]

\* the turn just handled is the turn chat makes of it when the service
\* behaves as r was computed with
HandledAs(r) ==
  /\ r.route = "safety"
  /\ r.outcome = "returned"
  /\ r.reply = Reply("safety", << >>)
  /\ last'.reply = r.reply
  /\ sessions' = r.W.sessions
  /\ memory_store' = r.W.memory_store
  /\ agent_store' = r.W.agent_store

C18_SafetyNeedsNoService ==
  [][(last'.op = "chat" /\ last'.message \in TriggerMessages)
       => \A env \in ServiceBehaviours :
            HandledAs(chat(World, last'.message, last'.session_id, env))]_vars

\* a safety turn handled while the service fails
C18_Witness ==
  /\ last.op = "chat"
  /\ last.route = "safety"
  /\ last.reply = Reply("safety", << >>)
  /\ NameIn(sessions, last.session_id) # None
  /\ NoEnv.gen = FAIL

\* C19: a positive, negative or fallback turn in which the text-generation
\* service fails appends nothing to the history and has none of the
\* effects of a turn: the name, marks and history of the session are as
\* they were.
C19_FailedTurnNoEffect ==
  [][(/\ last'.op = "chat"
      /\ last'.route \in {"positive", "negative", "fallback"}
      /\ last'.reply.kind # "generated")
       => /\ HistoryIn(memory_store', last'.session_id)
               = HistoryIn(memory_store, last'.session_id)
          /\ NameIn(sessions', last'.session_id) = NameIn(sessions, last'.session_id)
          /\ MarksIn(sessions', last'.session_id)
               = MarksIn(sessions, last'.session_id)]_vars

\* C20: a chat call whose message holds a farewell phrase and no safety
\* trigger returns the sign-off addressed to the bound name, or to
\* "Friend" when no name is bound, and leaves the history, name and marks
\* of the session as they were; an unset name stays unset.
C20_ExitTurn ==
  [][(last'.op = "chat" /\ last'.message \in ExitMessages \ TriggerMessages)
       => /\ last'.outcome = "returned"
          /\ last'.reply =
               Reply("bye", IF NameIn(sessions, last'.session_id) = None THEN <<"F","r","i","e","n","d">>
                            ELSE NameIn(sessions, last'.session_id))
          /\ NameIn(sessions', last'.session_id) = NameIn(sessions, last'.session_id)
          /\ MarksIn(sessions', last'.session_id) = MarksIn(sessions, last'.session_id)
          /\ HistoryIn(memory_store', last'.session_id)
               = HistoryIn(memory_store, last'.session_id)]_vars

\* a farewell in a session that has a name and marks
C20_Witness ==
  /\ last.op = "chat"
  /\ last.route = "exit"
  /\ last.message = <<"o","k"," ","b","y","e"," ","9","0"," ","h","a","p","p","y">>
  /\ last.reply.text = NameIn(sessions, last.session_id)
  /\ MarksIn(sessions, last.session_id) # << >>

\* C21: no chat or set_name call removes a subject from the marks of a
\* session or returns a bound name to unset, and the marks of a session
\* change only in a chat turn of that session that takes the academic or
\* the fallback route: never in a set_name call or in an empty, safety,
\* exit, name, positive or negative turn.
C21_StateOnlyGrows ==
  [][\A s \in SessionIds :
       /\ Keys(MarksIn(sessions, s)) \subseteq Keys(MarksIn(sessions', s))
       /\ NameIn(sessions, s) # None => NameIn(sessions', s) # None
       /\ s \in DOMAIN sessions => s \in DOMAIN sessions'
       /\ MarksIn(sessions', s) # MarksIn(sessions, s)
            => /\ last'.op = "chat"
               /\ last'.session_id = s
               /\ last'.route \in {"academic", "fallback"}]_vars

\* a fallback turn whose agent stored a third subject
C21_Witness ==
  /\ last.op = "chat"
  /\ last.route = "fallback"
  /\ NameIn(sessions, last.session_id) # None
  /\ MarksIn(sessions, last.session_id)
       = << <<<<"M","a","t","h","s">>, 91>>, <<<<"P","h","y","s","i","c","s">>, 80>>, <<<<"C","h","e","m">>, 55>> >>
====
